---- MODULE Spec2Model ----
(***************************************************************************)
(* httpmock: one call of runCancelable(responder, req), with the watcher   *)
(* goroutine, the executor goroutine, the two buffered channels they share *)
(* and the caller that may close req.Cancel at any moment.                 *)
(* Spec and FairSpec are that call; CollabSpec is the response bodies      *)
(* (dummyReadCloser, SlowReader) and the CloseNotifyingRecorder in use.    *)
(***************************************************************************)
EXTENDS Integers, Sequences, FiniteSets, TLC

VARIABLES
    cancel,     \* req.Cancel: "nil" (absent), "open", "closed" (fired by the caller)
    responder,  \* what the responder does when invoked
    inv,        \* position of the task that called runCancelable
    r,          \* the invoker's local r (line 53)
    ret,        \* the pair runCancelable returned (line 16 or 59)
    made,       \* TRUE once resultch and done exist (lines 22-23)
    resultch,   \* buffer of resultch
    done,       \* number of values buffered in done
    wat,        \* position of the watcher goroutine (lines 25-34)
    exe,        \* position of the executor goroutine (lines 36-51)
    eloc,       \* the executor's locals response, err (line 46)
    panicking,  \* the panic in flight in the executor, if any
    recovered,  \* the deferred function's local err (line 38)
    calls,      \* how many times the responder was invoked
    written,    \* every value sent on resultch, in order, with its sender
    reads,      \* how many values the invoker received from resultch
    sentDone,   \* how many values the invoker sent on done
    respEnd,    \* when the responder ended, relative to close(req.Cancel)
    body,       \* a response body: a dummyReadCloser and the reader it wraps
    rec         \* a CloseNotifyingRecorder and the tasks using it

callVars == <<cancel, responder, inv, r, ret, made, resultch, done, wat, exe, eloc,
              panicking, recovered, calls, written, reads, sentDone, respEnd>>

vars == <<callVars, body, rec>>

----------------------------------------------------------------------------
(* Values.  A Go string is a sequence of one-character strings.            *)

NilResp == "nil"
Responses == {"R200"}

NilErr == [nil |-> TRUE, text |-> "", arg |-> <<>>]
Err(text, arg) == [nil |-> FALSE, text |-> text, arg |-> arg]
ResponderErr == Err("responder error", <<>>)

\* interface{} values a responder may panic with
NilV == [t |-> "nil", s |-> <<>>]
StrV(s) == [t |-> "string", s |-> s]
Boom == <<"b", "o", "o", "m">>
Quoted == <<"a", "\"", "\\">>
FaultVals == {NilV, StrV(Boom), StrV(Quoted)}

\* strconv.Quote, which fmt's %q applies to a string operand
RECURSIVE Escape(_)
Escape(s) ==
    IF s = <<>> THEN <<>>
    ELSE (IF Head(s) \in {"\"", "\\"} THEN <<"\\", Head(s)>> ELSE <<Head(s)>>)
         \o Escape(Tail(s))

FmtQ(v) == <<"\"">> \o Escape(v.s) \o <<"\"">>

NoResult == [set |-> FALSE, response |-> NilResp, err |-> NilErr]
Result(response, err) == [set |-> TRUE, response |-> response, err |-> err]

\* the watcher reporting a cancellation without an error
CanceledResult_NoErr == Result(NilResp, NilErr)

\* lines 28-31
CanceledResult == Result(NilResp, Err("request canceled", <<>>))

\* the deferred function reporting the panic without an error
PanicResult_NoErr(v) == Result(NilResp, NilErr)

\* lines 39-42
PanicResult(v) == Result(NilResp, Err("panic in responder: got ", FmtQ(v)))

\* the executor forwarding the response without the responder's error
ForwardResult_DropErr(response, err) == Result(response, NilErr)

\* lines 47-50
ForwardResult(response, err) == Result(response, err)

\* line 16: return responder(req)
SyncResult(response, err) == Result(response, err)

\* the return statement dropping the error slot
ReturnOf_DropErr(res) == Result(res.response, NilErr)

\* line 59: return r.response, r.err
ReturnOf(res) == Result(res.response, res.err)

\* the nil test of line 15 inverted
CancelIsNil_Inverted(c) == c # "nil"

\* line 15
CancelIsNil(c) == c = "nil"

\* resultch made without a buffer: make(chan result)
ResultCap_Unbuffered == 1 - 1

\* line 22: make(chan result, 1)
ResultCap == 1

\* done made without a buffer: make(chan struct{})
DoneCap_Unbuffered == 1 - 1

\* line 23: make(chan struct{}, 1)
DoneCap == 1

\* a send proceeds when the buffer has room; on an unbuffered channel it
\* proceeds only as a hand-off to a receiver that is already waiting
CanSend(n, cap, receiverWaiting) == n < cap \/ (cap = 0 /\ n = 0 /\ receiverWaiting)

\* a receive that yields the zero result instead of the buffered value
RecvValue_Zero(ch) == NoResult

\* line 53: a receive takes the oldest buffered value
RecvValue(ch) == Head(ch)

\* a watcher whose Cancel case fires on a channel that is merely present
CancelReady_Present(c) == c # "nil"

\* a watcher that never sees the close of req.Cancel
CancelReady_Never(c) == FALSE

\* line 27: a receive from req.Cancel proceeds once the channel is closed
CancelReady(c) == c = "closed"

NoPanic == [active |-> FALSE, val |-> NilV]

\* line 38: recover() yields the value panic was called with, nil when the
\* goroutine is not panicking, and nil too for panic(nil)
Recover(p) == IF p.active THEN p.val ELSE NilV

Behaviours ==
    [kind : {"return"}, response : Responses \cup {NilResp},
     err : {NilErr, ResponderErr}, val : {NilV}]
    \cup [kind : {"panic"}, response : {NilResp}, err : {NilErr}, val : FaultVals]
    \cup [kind : {"block"}, response : {NilResp}, err : {NilErr}, val : {NilV}]

----------------------------------------------------------------------------
(* Response bodies (part_001) and the recorder (recoder.go).               *)

MaxBodyLen == 2     \* longest canned body
MaxBuf == 2         \* largest buffer handed to Read
MaxPasses == 2      \* reads stop after this many end-of-stream reports
MaxCloses == 2      \* calls of the recorder's Close

Min(a, b) == IF a <= b THEN a ELSE b

Bytes == {"a", "b"}
Contents == UNION {[1..n -> Bytes] : n \in 0..MaxBodyLen}

\* time.Second, in nanoseconds
Second == 1000000000

\* part_001 line 135: NewSlowReader(strings.NewReader(body), 4096)
SlowBps == 4096

\* part_001 line 173: delay := time.Second / time.Duration(bps)
SlowDelay(bps) == Second \div bps

\* what one Read reports: n, err, the bytes stored in p, the number of
\* time.Sleep calls it made, and whether it panicked instead of returning
ReadResult(n, err, data, pos, sleeps, panicked) ==
    [n |-> n, err |-> err, data |-> data, pos |-> pos, sleeps |-> sleeps,
     panicked |-> panicked]

\* strings.Reader.Read / bytes.Reader.Read on a buffer of length len, as in
\* the releases the build constraint of part_000 line 1 admits (before Go
\* 1.7): an empty buffer is answered (0, nil) before the position is looked
\* at, so it never reports end-of-stream
ReaderRead(content, pos, len) ==
    IF len = 0
    THEN ReadResult(0, "nil", <<>>, pos, 0, FALSE)
    ELSE IF pos >= Len(content)
    THEN ReadResult(0, "EOF", <<>>, pos, 0, FALSE)
    ELSE LET n == Min(len, Len(content) - pos)
         IN  ReadResult(n, "nil", SubSeq(content, pos + 1, pos + n), pos + n, 0, FALSE)

\* part_001 lines 163-166: SlowReader.Read; p[:1] panics when cap(p) = 0
SlowRead(content, pos, len, cap) ==
    IF cap < 1
    THEN ReadResult(0, "none", <<>>, pos, 1, TRUE)
    ELSE [ReaderRead(content, pos, 1) EXCEPT !.sleeps = 1]

\* a body that stays at end-of-stream once it is exhausted
RewindPos_Never(err, pos) == pos

\* part_001 lines 148-150: if err == io.EOF { d.body.Seek(0, 0) }
RewindPos(err, pos) == IF err = "EOF" THEN 0 ELSE pos

\* part_001 lines 146-152: dummyReadCloser.Read
DummyRead(b, len, cap) ==
    LET res == IF b.slow THEN SlowRead(b.content, b.pos, len, cap)
                         ELSE ReaderRead(b.content, b.pos, len)
    IN  [res EXCEPT !.pos = IF res.panicked THEN res.pos
                             ELSE RewindPos(res.err, res.pos)]

NoRead == ReadResult(0, "none", <<>>, 0, 0, FALSE)

\* part_001 lines 97-107 and 134-136: the body a constructor returns, with
\* the record of what its reads have delivered so far
NewBody(slow, content) ==
    [slow |-> slow, content |-> content, pos |-> 0,
     delay |-> IF slow THEN SlowDelay(SlowBps) ELSE 0,
     last |-> NoRead,       \* the most recent Read
     closed |-> FALSE,      \* Close has been called
     passes |-> 0,          \* end-of-stream reports so far
     cur |-> <<>>,          \* bytes delivered since the last end-of-stream
     curReads |-> 0,        \* reads since then that delivered a byte or more
     firstPass |-> <<>>,    \* bytes delivered before the first end-of-stream
     lastPass |-> <<>>,     \* bytes delivered before the latest end-of-stream
     lastReads |-> 0]       \* byte-delivering reads before the latest one

Bodies == {NewBody(slow, content) : slow \in BOOLEAN, content \in Contents}

\* the body after a Read with a buffer of length len and capacity cap
AfterRead(b, len, cap) ==
    LET res == DummyRead(b, len, cap)
        eof == res.err = "EOF"
        got == b.cur \o res.data
        cnt == b.curReads + (IF res.n > 0 THEN 1 ELSE 0)
    IN  [b EXCEPT !.pos = res.pos,
                  !.last = res,
                  !.passes = IF eof THEN @ + 1 ELSE @,
                  !.cur = IF eof THEN <<>> ELSE got,
                  !.curReads = IF eof THEN 0 ELSE cnt,
                  !.firstPass = IF eof /\ b.passes = 0 THEN got ELSE @,
                  !.lastPass = IF eof THEN got ELSE @,
                  !.lastReads = IF eof THEN cnt ELSE @]

\* resp.Body.Read(p)
BodyRead ==
    /\ body.passes < MaxPasses
    /\ \E len \in 0..MaxBuf : \E cap \in len..MaxBuf :
          body' = AfterRead(body, len, cap)
    /\ UNCHANGED <<callVars, rec>>

\* part_001 lines 154-156: dummyReadCloser.Close
BodyClose ==
    /\ ~body.closed
    /\ body' = [body EXCEPT !.closed = TRUE]
    /\ UNCHANGED <<callVars, rec>>

\* recoder.go line 13 made without a buffer: make(chan bool)
RecCap_Unbuffered == 1 - 1

\* recoder.go line 13: make(chan bool, 1)
RecCap == 1

\* recoder.go line 22: the channel CloseNotify returns
RecChan == "c.closed"

\* recoder.go lines 10-15: NewCloseNotifyingRecorder
NewRecorder ==
    [buf |-> 0,             \* values buffered in c.closed
     closer |-> "idle",     \* the task calling Close: "idle" or "sending"
     started |-> 0,         \* calls of Close begun
     closes |-> 0,          \* calls of Close that returned
     received |-> 0,        \* receives on the channel that yielded a value
     notified |-> "none"]   \* what CloseNotify returned last

\* recoder.go line 17: Close is called
RecCloseCall ==
    /\ rec.closer = "idle"
    /\ rec.started < MaxCloses
    /\ rec' = [rec EXCEPT !.closer = "sending", !.started = @ + 1]
    /\ UNCHANGED <<callVars, body>>

\* recoder.go line 18: c.closed <- true, with nobody waiting to receive
RecCloseSend ==
    /\ rec.closer = "sending"
    /\ CanSend(rec.buf, RecCap, FALSE)
    /\ rec' = [rec EXCEPT !.buf = @ + 1, !.closer = "idle", !.closes = @ + 1]
    /\ UNCHANGED <<callVars, body>>

\* an observer's <-rec.CloseNotify() yields a value
RecReceive ==
    /\ rec.buf > 0
    /\ rec' = [rec EXCEPT !.buf = @ - 1, !.received = @ + 1]
    /\ UNCHANGED <<callVars, body>>

\* recoder.go lines 21-23: CloseNotify
RecCloseNotify ==
    /\ rec' = [rec EXCEPT !.notified = RecChan]
    /\ UNCHANGED <<callVars, body>>

----------------------------------------------------------------------------
\* the responder's end, stamped with whether req.Cancel was already closed
\* and with where the invoker stood
NotEnded == [ended |-> FALSE, fired |-> FALSE, at |-> "none"]
EndStamp == [ended |-> TRUE, fired |-> cancel = "closed", at |-> inv]

\* runCancelable about to be called
CallStart ==
    /\ inv = "start"
    /\ r = NoResult
    /\ ret = NoResult
    /\ made = FALSE
    /\ resultch = <<>>
    /\ done = 0
    /\ wat = "none"
    /\ exe = "none"
    /\ eloc = NoResult
    /\ panicking = NoPanic
    /\ recovered = NilV
    /\ calls = 0
    /\ written = <<>>
    /\ reads = 0
    /\ sentDone = 0
    /\ respEnd = NotEnded

Init ==
    /\ cancel \in {"nil", "open"}
    /\ responder \in Behaviours
    /\ CallStart
    /\ body = NewBody(FALSE, <<>>)
    /\ rec = NewRecorder

(* ------------------------------ the caller ---------------------------- *)
\* close(req.Cancel), at any moment the caller likes
Fire ==
    /\ cancel = "open"
    /\ cancel' = "closed"
    /\ UNCHANGED <<body, rec, responder, inv, r, ret, made, resultch, done, wat, exe, eloc,
                   panicking, recovered, calls, written, reads, sentDone, respEnd>>

(* ------------------------- lines 15-17: no Cancel --------------------- *)
SyncCall ==
    /\ inv = "start"
    /\ CancelIsNil(cancel)
    /\ inv' = "sync"
    /\ calls' = calls + 1
    /\ UNCHANGED <<body, rec, cancel, responder, r, ret, made, resultch, done, wat, exe, eloc,
                   panicking, recovered, written, reads, sentDone, respEnd>>

SyncReturn ==
    /\ inv = "sync"
    /\ responder.kind = "return"
    /\ ret' = SyncResult(responder.response, responder.err)
    /\ inv' = "returned"
    /\ respEnd' = EndStamp
    /\ UNCHANGED <<body, rec, cancel, responder, r, made, resultch, done, wat, exe, eloc,
                   panicking, recovered, calls, written, reads, sentDone>>

\* nothing on this path recovers: the panic unwinds into the caller
SyncPanic ==
    /\ inv = "sync"
    /\ responder.kind = "panic"
    /\ inv' = "panicked"
    /\ respEnd' = EndStamp
    /\ UNCHANGED <<body, rec, cancel, responder, r, ret, made, resultch, done, wat, exe, eloc,
                   panicking, recovered, calls, written, reads, sentDone>>

(* ------------------------- lines 22-59: the invoker ------------------- *)
MakeChans ==
    /\ inv = "start"
    /\ ~CancelIsNil(cancel)
    /\ made' = TRUE
    /\ resultch' = <<>>
    /\ done' = 0
    /\ inv' = "goWatcher"
    /\ UNCHANGED <<body, rec, cancel, responder, r, ret, wat, exe, eloc, panicking, recovered,
                   calls, written, reads, sentDone, respEnd>>

GoWatcher ==
    /\ inv = "goWatcher"
    /\ wat' = "select"
    /\ inv' = "goExecutor"
    /\ UNCHANGED <<body, rec, cancel, responder, r, ret, made, resultch, done, exe, eloc,
                   panicking, recovered, calls, written, reads, sentDone, respEnd>>

GoExecutor ==
    /\ inv = "goExecutor"
    /\ exe' = "start"
    /\ inv' = "recv"
    /\ UNCHANGED <<body, rec, cancel, responder, r, ret, made, resultch, done, wat, eloc,
                   panicking, recovered, calls, written, reads, sentDone, respEnd>>

\* line 53: r := <-resultch
RecvResult ==
    /\ inv = "recv"
    /\ Len(resultch) > 0
    /\ r' = RecvValue(resultch)
    /\ resultch' = Tail(resultch)
    /\ reads' = reads + 1
    /\ inv' = "sendDone"
    /\ UNCHANGED <<body, rec, cancel, responder, ret, made, done, wat, exe, eloc, panicking,
                   recovered, calls, written, sentDone, respEnd>>

\* the invoker returning without the send on done
SendDone_Skipped ==
    /\ inv = "sendDone"
    /\ inv' = "return"
    /\ UNCHANGED <<body, rec, cancel, responder, r, ret, made, resultch, done, wat, exe, eloc,
                   panicking, recovered, calls, written, reads, sentDone, respEnd>>

\* line 57: done <- struct{}{}
SendDone ==
    /\ inv = "sendDone"
    /\ CanSend(done, DoneCap, wat = "select")
    /\ done' = done + 1
    /\ sentDone' = sentDone + 1
    /\ inv' = "return"
    /\ UNCHANGED <<body, rec, cancel, responder, r, ret, made, resultch, wat, exe, eloc,
                   panicking, recovered, calls, written, reads, respEnd>>

\* line 59
Return ==
    /\ inv = "return"
    /\ ret' = ReturnOf(r)
    /\ inv' = "returned"
    /\ UNCHANGED <<body, rec, cancel, responder, r, made, resultch, done, wat, exe, eloc,
                   panicking, recovered, calls, written, reads, sentDone, respEnd>>

(* ------------------------- lines 25-34: the watcher ------------------- *)
\* select chooses case <-req.Cancel
WatcherCancel ==
    /\ wat = "select"
    /\ CancelReady(cancel)
    /\ wat' = "send"
    /\ UNCHANGED <<body, rec, cancel, responder, inv, r, ret, made, resultch, done, exe, eloc,
                   panicking, recovered, calls, written, reads, sentDone, respEnd>>

\* lines 28-31: resultch <- result{nil, "request canceled"}
WatcherSend ==
    /\ wat = "send"
    /\ CanSend(Len(resultch), ResultCap, inv = "recv")
    /\ resultch' = Append(resultch, CanceledResult)
    /\ written' = Append(written, [by |-> "watcher", res |-> CanceledResult])
    /\ wat' = "done"
    /\ UNCHANGED <<body, rec, cancel, responder, inv, r, ret, made, done, exe, eloc, panicking,
                   recovered, calls, reads, sentDone, respEnd>>

\* select chooses case <-done
WatcherStandDown ==
    /\ wat = "select"
    /\ done > 0
    /\ done' = done - 1
    /\ wat' = "done"
    /\ UNCHANGED <<body, rec, cancel, responder, inv, r, ret, made, resultch, exe, eloc,
                   panicking, recovered, calls, written, reads, sentDone, respEnd>>

(* ------------------------- lines 36-51: the executor ------------------ *)
\* line 46: the call of responder(req) begins
ExecCall ==
    /\ exe = "start"
    /\ exe' = "running"
    /\ calls' = calls + 1
    /\ UNCHANGED <<body, rec, cancel, responder, inv, r, ret, made, resultch, done, wat, eloc,
                   panicking, recovered, written, reads, sentDone, respEnd>>

\* line 46: the responder returns (response, err)
ResponderReturns ==
    /\ exe = "running"
    /\ responder.kind = "return"
    /\ eloc' = Result(responder.response, responder.err)
    /\ exe' = "send"
    /\ respEnd' = EndStamp
    /\ UNCHANGED <<body, rec, cancel, responder, inv, r, ret, made, resultch, done, wat,
                   panicking, recovered, calls, written, reads, sentDone>>

\* line 46: the responder panics; control passes to the deferred function
ResponderPanics ==
    /\ exe = "running"
    /\ responder.kind = "panic"
    /\ panicking' = [active |-> TRUE, val |-> responder.val]
    /\ exe' = "deferred"
    /\ respEnd' = EndStamp
    /\ UNCHANGED <<body, rec, cancel, responder, inv, r, ret, made, resultch, done, wat, eloc,
                   recovered, calls, written, reads, sentDone>>

\* lines 47-50: resultch <- result{response, err}; then the function returns
\* and its deferred function runs
ExecSend ==
    /\ exe = "send"
    /\ CanSend(Len(resultch), ResultCap, inv = "recv")
    /\ resultch' = Append(resultch, ForwardResult(eloc.response, eloc.err))
    /\ written' = Append(written, [by |-> "executor",
                                   res |-> ForwardResult(eloc.response, eloc.err)])
    /\ exe' = "deferred"
    /\ UNCHANGED <<body, rec, cancel, responder, inv, r, ret, made, done, wat, eloc, panicking,
                   recovered, calls, reads, sentDone, respEnd>>

\* a deferred function that calls the responder again after a panic
ExecDeferred_Retry ==
    /\ exe = "deferred"
    /\ recovered' = Recover(panicking)
    /\ panicking' = NoPanic
    /\ exe' = IF Recover(panicking) # NilV THEN "start" ELSE "done"
    /\ UNCHANGED <<body, rec, cancel, responder, inv, r, ret, made, resultch, done, wat, eloc,
                   calls, written, reads, sentDone, respEnd>>

\* line 38: if err := recover(); err != nil
ExecDeferred ==
    /\ exe = "deferred"
    /\ recovered' = Recover(panicking)
    /\ panicking' = NoPanic
    /\ exe' = IF Recover(panicking) # NilV THEN "panicSend" ELSE "done"
    /\ UNCHANGED <<body, rec, cancel, responder, inv, r, ret, made, resultch, done, wat, eloc,
                   calls, written, reads, sentDone, respEnd>>

\* lines 39-42: resultch <- result{nil, "panic in responder: got %q"}
ExecPanicSend ==
    /\ exe = "panicSend"
    /\ CanSend(Len(resultch), ResultCap, inv = "recv")
    /\ resultch' = Append(resultch, PanicResult(recovered))
    /\ written' = Append(written, [by |-> "executor", res |-> PanicResult(recovered)])
    /\ exe' = "done"
    /\ UNCHANGED <<body, rec, cancel, responder, inv, r, ret, made, done, wat, eloc, panicking,
                   recovered, calls, reads, sentDone, respEnd>>

----------------------------------------------------------------------------
Invoker == SyncCall \/ SyncReturn \/ SyncPanic \/ MakeChans \/ GoWatcher
           \/ GoExecutor \/ RecvResult \/ SendDone \/ Return
Watcher == WatcherCancel \/ WatcherSend \/ WatcherStandDown
Executor == ExecCall \/ ResponderReturns \/ ResponderPanics \/ ExecSend
            \/ ExecDeferred \/ ExecPanicSend

Next == Fire \/ Invoker \/ Watcher \/ Executor

Spec == Init /\ [][Next]_vars

\* Every runnable goroutine is eventually scheduled, and a responder that
\* returns or panics does so eventually.  The caller is never obliged to
\* close req.Cancel.
FairSpec ==
    /\ Spec
    /\ WF_vars(Invoker)
    /\ WF_vars(WatcherCancel \/ WatcherStandDown)
    /\ WF_vars(WatcherSend)
    /\ WF_vars(Executor)

\* A canned response made by NewStringResponder
StringResponder == [kind |-> "return", response |-> "R200", err |-> NilErr, val |-> NilV]

\* The bodies and the recorder in use, with no call of runCancelable in
\* progress.
CollabInit ==
    /\ cancel = "nil"
    /\ responder = StringResponder
    /\ CallStart
    /\ body \in Bodies
    /\ rec = NewRecorder

CollabNext == BodyRead \/ BodyClose \/ RecCloseCall \/ RecCloseSend
              \/ RecReceive \/ RecCloseNotify

CollabSpec == CollabInit /\ [][CollabNext]_vars

TypeOK ==
    /\ cancel \in {"nil", "open", "closed"}
    /\ responder \in Behaviours
    /\ inv \in {"start", "sync", "panicked", "goWatcher", "goExecutor", "recv",
                "sendDone", "return", "returned"}
    /\ wat \in {"none", "select", "send", "done"}
    /\ exe \in {"none", "start", "running", "send", "deferred", "panicSend", "done"}
    /\ done \in 0..DoneCap
    /\ Len(resultch) <= ResultCap
    /\ reads \in 0..1
    /\ calls \in 0..1

----------------------------------------------------------------------------
(* What the caller is entitled to see, written independently of the        *)
(* definitions above.                                                      *)

Cancelable == cancel # "nil"
Returned == inv = "returned"
ExpectPair(response, err) == [set |-> TRUE, response |-> response, err |-> err]
ExpectCanceled ==
    ExpectPair("nil", [nil |-> FALSE, text |-> "request canceled", arg |-> <<>>])
WrittenResults == {written[i].res : i \in 1..Len(written)}
FirstBy(who) == Len(written) >= 1 /\ written[1].by = who

\* strconv.Unquote on the output of Quote: the string a quoted form denotes
RECURSIVE Unescape(_)
Unescape(s) ==
    IF s = <<>> THEN <<>>
    ELSE IF Head(s) = "\\" /\ Len(s) >= 2
         THEN <<s[2]>> \o Unescape(Tail(Tail(s)))
         ELSE <<Head(s)>> \o Unescape(Tail(s))
Unquote(q) ==
    IF Len(q) >= 2 THEN Unescape(SubSeq(q, 2, Len(q) - 1)) ELSE <<>>

\* err is a "panic in responder" error whose message carries the value v
IsPanicErrOf(err, v) ==
    /\ ~err.nil
    /\ err.text = "panic in responder: got "
    /\ Unquote(err.arg) = v.s

\* C1: with req.Cancel == nil and a responder that returns (resp, err),
\* runCancelable returns exactly (resp, err), the responder ran in the
\* caller's task, and no channel and no goroutine was created.
C1_NoCancelPassthrough ==
    (cancel = "nil")
        => /\ ~made /\ wat = "none" /\ exe = "none" /\ Len(written) = 0
           /\ (Returned => /\ responder.kind = "return"
                           /\ ret = ExpectPair(responder.response, responder.err)
                           /\ calls = 1)

C1_Witness ==
    /\ cancel = "nil" /\ Returned
    /\ ret = ExpectPair("R200", NilErr) /\ ~made

\* C2: on the cancelable path the invoker receives exactly one outcome and
\* returns once; the returned pair is one whole outcome that one task sent,
\* and it never changes afterwards, whatever is sent later.
C2_SingleDelivery ==
    /\ [](reads <= 1)
    /\ []((Cancelable /\ Returned)
            => /\ reads = 1
               /\ ret \in WrittenResults
               /\ ret = ExpectPair(r.response, r.err))
    /\ [][Returned => (inv' = "returned" /\ ret' = ret /\ reads' = reads)]_vars

C2_Witness ==
    /\ Returned /\ Len(written) = 2
    /\ written[1].res # written[2].res /\ ret = written[1].res

\* C3 as stated: whenever req.Cancel was closed before the responder
\* returned, runCancelable returns (nil, "request canceled").
C3_CancelBeforeReturnAlwaysWins ==
    (Cancelable /\ Returned /\ respEnd.ended /\ respEnd.fired)
        => ret = ExpectCanceled

\* C3 as amended: whenever the watcher's outcome is the first one sent on
\* resultch, runCancelable returns (nil, "request canceled"), and req.Cancel
\* had been closed.
C3_WatcherFirstReturnsCanceled ==
    (Cancelable /\ Returned /\ FirstBy("watcher"))
        => (ret = ExpectCanceled /\ cancel = "closed")

C3_Witness ==
    /\ Returned /\ respEnd.ended /\ respEnd.fired /\ respEnd.at = "recv"
    /\ FirstBy("watcher") /\ ret = ExpectCanceled

\* C4 as stated: with req.Cancel never closed and a responder that panics
\* with v, the executor turns the panic into the outcome
\* (nil, "panic in responder" carrying v), runCancelable returns it, and the
\* panic does not reach the caller.
C4_FaultContained ==
    (cancel = "open" /\ responder.kind = "panic")
        => /\ inv # "panicked"
           /\ (exe = "done"
                 => /\ Len(written) = 1
                    /\ written[1].res.response = "nil"
                    /\ IsPanicErrOf(written[1].res.err, responder.val))
           /\ (Returned
                 => /\ ret.response = "nil"
                    /\ IsPanicErrOf(ret.err, responder.val))

\* C5 as stated: with or without req.Cancel, no responder panic unwinds into
\* the caller, and every return with a non-nil error has a nil response.
C5_EveryFailureIsNilAndError ==
    /\ inv # "panicked"
    /\ (Returned /\ ~ret.err.nil) => ret.response = "nil"
    /\ (Returned /\ responder.kind = "panic") => ~ret.err.nil

\* C6: with req.Cancel never closed and a responder that returns (R, e),
\* runCancelable eventually returns, and what it returns is exactly (R, e),
\* never the cancellation error.
C6_ResponderWins ==
    /\ []((cancel = "open" /\ responder.kind = "return" /\ Returned)
            => (ret = ExpectPair(responder.response, responder.err)
                /\ ret # ExpectCanceled))
    /\ (cancel = "open" /\ responder.kind = "return")
            => <>(cancel = "closed" \/ Returned)

C6_Witness ==
    /\ cancel = "open" /\ Returned
    /\ responder.err = ResponderErr
    /\ ret = ExpectPair("R200", ResponderErr)

\* C7: with a responder that never returns, once req.Cancel is closed
\* runCancelable eventually returns (nil, "request canceled"), while the
\* responder is still running.
C7_CancellationWins ==
    (Cancelable /\ responder.kind = "block")
        => /\ [](cancel = "closed"
                    => <>(Returned /\ ret = ExpectCanceled /\ ~respEnd.ended))
           /\ [](Returned => (ret = ExpectCanceled /\ exe \in {"start", "running"}))

C7_Witness ==
    /\ responder.kind = "block" /\ Returned
    /\ ret = ExpectCanceled /\ exe = "running"

\* C8: once the invoker has received its outcome, the watcher eventually
\* terminates, whoever won and whether req.Cancel is closed before the
\* return, after it, or never.
C8_NoWatcherLeak == [](reads = 1 => <>(wat = "done"))

C8_Witness ==
    /\ reads = 1 /\ wat = "done" /\ cancel = "open"
    /\ FirstBy("executor") /\ Returned /\ done = 0

\* C9: a send on resultch that has begun eventually completes, also the
\* second one that nobody receives; resultch never holds more than one
\* unread outcome and at most two outcomes are sent per invocation.
C9_LoserNeverDeadlocks ==
    /\ [](Len(resultch) <= 1 /\ Len(written) <= 2)
    /\ [](wat = "send" => <>(wat = "done"))
    /\ [](exe \in {"send", "panicSend"} => <>(exe = "done"))

C9_Witness ==
    /\ Len(written) = 2 /\ wat = "done" /\ exe = "done"
    /\ reads = 1 /\ Len(resultch) = 1

\* C10 as stated: after the cancellation outcome has been received, the
\* executor is left alone: it leaves the responder call only because the
\* responder itself ended (returned or panicked, whatever the value), it
\* then sends its outcome on resultch, which it finds empty, it terminates,
\* and the value returned stays (nil, "request canceled").
CancelWon == reads = 1 /\ FirstBy("watcher")
C10_ExecutorRunsOn ==
    /\ [][(CancelWon /\ exe \in {"start", "running"} /\ exe' # exe)
            => \/ (exe = "start" /\ exe' = "running")
               \/ (exe = "running" /\ ~respEnd.ended /\ respEnd'.ended)]_vars
    /\ []((CancelWon /\ exe \in {"send", "panicSend"}) => Len(resultch) = 0)
    /\ []((CancelWon /\ respEnd.ended) => <>(exe = "done"))
    /\ []((CancelWon /\ Returned) => ret = ExpectCanceled)
    /\ []((CancelWon /\ exe = "done")
            => (Len(written) = 2 /\ written[2].by = "executor"))

\* the outcome the executor owes for what the responder did
IsResponderOutcome(res) ==
    \/ /\ responder.kind = "return"
       /\ res = ExpectPair(responder.response, responder.err)
    \/ /\ responder.kind = "panic"
       /\ res.set /\ res.response = "nil"
       /\ IsPanicErrOf(res.err, responder.val)

\* C11: on the cancelable path the value returned is the first value sent on
\* resultch, and it is either (nil, "request canceled") or the outcome of the
\* responder, nothing else.
C11_FirstWriterWins ==
    /\ (Cancelable /\ reads = 1) => (Len(written) >= 1 /\ r = written[1].res)
    /\ (Cancelable /\ Returned)
         => /\ ret.response = written[1].res.response
            /\ ret.err = written[1].res.err
            /\ (ret = ExpectCanceled \/ IsResponderOutcome(ret))
            /\ (ret = ExpectCanceled <=> FirstBy("watcher"))

C11_Witness ==
    /\ Returned /\ respEnd.ended /\ respEnd.fired /\ respEnd.at = "recv"
    /\ Len(written) = 2 /\ written[1].by = "executor" /\ written[2].by = "watcher"
    /\ ret = ExpectPair("R200", NilErr)

\* C12: the invoker sends on done exactly once, only after its receive,
\* whoever won; done is empty when it sends, so the send cannot block and the
\* invoker always gets from the receive to the return.
C12_StandDownOnceNeverBlocks ==
    /\ [](/\ sentDone <= 1
          /\ (sentDone = 1 => reads = 1)
          /\ (inv = "sendDone" => (done = 0 /\ sentDone = 0 /\ reads = 1))
          /\ ((Cancelable /\ inv \in {"return", "returned"}) => sentDone = 1))
    /\ [](reads = 1 => <>Returned)

C12_Witness ==
    /\ Returned /\ sentDone = 1 /\ FirstBy("watcher")
    /\ wat = "done" /\ done = 1

\* C13: the responder is invoked at most once per call: once on the path
\* without Cancel as soon as the call is past line 15, and once by the
\* executor as soon as it runs, whatever the outcome.
C13_NoRetries ==
    /\ calls <= 1
    /\ (cancel = "nil" /\ inv # "start") => calls = 1
    /\ (Cancelable /\ exe \in {"none", "start"}) => calls = 0
    /\ (Cancelable /\ exe \notin {"none", "start"}) => calls = 1

C13_Witness ==
    /\ Cancelable /\ Returned /\ exe = "done"
    /\ responder.kind = "panic" /\ responder.val # NilV
    /\ IsResponderOutcome(ret) /\ calls = 1

\* C14: only the caller closes req.Cancel: no step of the invoker, the
\* watcher or the executor changes it, and (nil, "request canceled") is
\* returned only when the caller has closed it.
C14_CancellationIsCallerDriven ==
    /\ [][(Invoker \/ Watcher \/ Executor) => cancel' = cancel]_vars
    /\ [][cancel' # cancel => (cancel = "open" /\ cancel' = "closed")]_vars
    /\ []((wat = "send" \/ FirstBy("watcher")) => cancel = "closed")
    /\ []((Returned /\ ret = ExpectCanceled) => cancel = "closed")

C14_Witness ==
    /\ Returned /\ ret = ExpectCanceled /\ cancel = "closed"
    /\ responder.kind = "return" /\ exe = "done"

\* C15 as stated: on the cancelable path, once the responder call has ended,
\* by return or by a panic of any value, the executor ends having sent
\* exactly one outcome (which is what lets the call return when req.Cancel
\* is never closed).
ExecutorSends == {i \in 1..Len(written) : written[i].by = "executor"}
C15_ExecutorAlwaysSendsOne ==
    /\ Cardinality(ExecutorSends) <= 1
    /\ (Cancelable /\ exe = "done") => Cardinality(ExecutorSends) = 1

\* C16 as stated: every pair runCancelable returns has exactly one
\* meaningful slot: a non-nil error with a nil response, or a nil error with
\* a non-nil response.
OneSlot(res) ==
    /\ ~res.err.nil => res.response = "nil"
    /\ res.err.nil => res.response # "nil"
C16_ExactlyOneSlot == Returned => OneSlot(ret)

\* C16 as amended: the pairs runCancelable makes itself (cancellation,
\* recovered panic) have a nil response and a non-nil error, and a
\* responder's own pair is returned as it is, so the returned pair has
\* exactly one meaningful slot whenever the responder's pair has.
C16_OneSlotWhenResponderHasOne ==
    Returned
      => /\ (responder.kind = "return"
               /\ ret = ExpectPair(responder.response, responder.err))
            \/ (ret.response = "nil" /\ ~ret.err.nil)
         /\ (responder.kind = "return"
               => OneSlot(ExpectPair(responder.response, responder.err)))
            => OneSlot(ret)

C16_Witness ==
    /\ Returned /\ Cancelable /\ responder.kind = "panic"
    /\ ret.response = "nil" /\ ~ret.err.nil /\ ret # ExpectCanceled

\* C17: every end-of-stream report leaves the body at its start, so the
\* bytes delivered between two end-of-stream reports are the bytes delivered
\* before the first one, the whole canned content, pass after pass; and
\* Close does not move the read position.
C17_RestartableBody ==
    /\ [](body.last.err = "EOF" => (body.pos = 0 /\ body.last.n = 0))
    /\ [](body.passes >= 1
            => /\ body.lastPass = body.firstPass
               /\ body.firstPass = body.content)
    /\ [](body.cur = SubSeq(body.content, 1, body.pos))
    /\ [][BodyClose => body'.pos = body.pos]_vars

C17_Witness ==
    /\ ~body.slow /\ Len(body.content) = 2 /\ body.closed
    /\ body.passes = 2 /\ body.lastPass = body.content
    /\ body.lastReads = 1

\* C18 as stated: every Read on a throttled body, whatever buffer it is
\* given, sleeps exactly once and returns at most one byte, so a body of
\* length L is drained by exactly L reads that deliver a byte, each after
\* a sleep of at least 1 / SlowBps seconds.
C18_ThrottledBody ==
    body.slow
      => /\ (body.last # NoRead
               => /\ ~body.last.panicked
                  /\ body.last.sleeps = 1
                  /\ body.last.n <= 1)
         /\ (body.passes >= 1 => body.lastReads = Len(body.content))
         /\ ((body.passes >= 1 /\ Len(body.content) > 0)
               => body.delay * SlowBps >= Second)

\* C19: before any Close returns no receive on the channel yields a value;
\* the first Close finds room in the channel although nobody is receiving;
\* after it exactly one receive yields a value; CloseNotify returns one and
\* the same channel.
C19_RecorderCloseNotification ==
    /\ (rec.closes = 0 => (rec.buf = 0 /\ rec.received = 0))
    /\ ((rec.closer = "sending" /\ rec.closes = 0)
          => (rec.buf = 0 /\ CanSend(rec.buf, RecCap, FALSE)))
    /\ (rec.closes = 1 => rec.buf + rec.received = 1)
    /\ rec.buf + rec.received = rec.closes
    /\ rec.notified \in {"none", "c.closed"}

C19_Witness ==
    /\ rec.closes = 1 /\ rec.started = 1 /\ rec.received = 1 /\ rec.buf = 0
    /\ rec.notified = "c.closed"
====
